---- MODULE Spec2Model ----
(***************************************************************************)
(* tc39-to-jira: synchronisation of the TC39 proposal dataset with Jira    *)
(* issues (src/main.js), and the bulk-export bootstrap parser              *)
(* (parseJiraCsv of src/unnamed/part_000 and part_001).                    *)
(*                                                                         *)
(* Numbers: a proposal's stage is held in tenths (2.7 is 27), a note's     *)
(* timestamp in hours since the epoch.  Text is a sequence of tokens; a    *)
(* token is either a run of characters of the class [A-Za-z0-9.-] (a       *)
(* member of IdCharTokens) or a piece of text outside of it.               *)
(***************************************************************************)
EXTENDS Integers, Sequences, FiniteSets, TLC

\* ------------------------------------------------------------------ bounds
MaxData == 2       \* proposals in a dataset
MaxNotes == 3      \* notes of a proposal
MaxRuns == 2       \* consecutive runs of the tool against the same tracker
MaxLines == 3      \* lines of a bulk export

\* --------------------------------------------------------------- constants
PROJECTKEY == "SJP"
COMPONENT == "TC39 Proposals"
ISSUETYPE_STORY == 10030
maxResults == 100

\* The table as it was before stage 2.7 existed.
STAGE_EPICS_Without27 ==
  [k \in {"1", "2", "3", "4"} |->
     CASE k = "1" -> "SJP-184"
       [] k = "2" -> "SJP-185"
       [] k = "3" -> "SJP-187"
       [] k = "4" -> "SJP-188"]

STAGE_EPICS ==
  [k \in {"1", "2", "2.7", "3", "4"} |->
     CASE k = "1" -> "SJP-184"
       [] k = "2" -> "SJP-185"
       [] k = "2.7" -> "SJP-186"
       [] k = "3" -> "SJP-187"
       [] k = "4" -> "SJP-188"]

\* ------------------------------------------------------------------- text
\* The tokens made only of characters of the class [A-Za-z0-9.-].
IdCharTokens == {"a", "b", "undefined", "0", "1", "-1", "SJP-", "SJP-1", "SJP-2"}

\* The tracked-issue keys an export line can hold: matches of /(SJP\-[0-9]+)/.
KeyTokens == {"SJP-1", "SJP-2"}

Min(a, b) == IF a < b THEN a ELSE b
Max(a, b) == IF a > b THEN a ELSE b

\* The maximal run of class tokens of text starting at position i.
RECURSIVE IdRun(_, _)
IdRun(text, i) ==
  IF i > Len(text) \/ text[i] \notin IdCharTokens
  THEN <<>>
  ELSE <<text[i]>> \o IdRun(text, i + 1)

\* text.match(/id: ([A-Za-z0-9.-]+)/): the positions where the marker is
\* followed by at least one character of the class; the first one matches.
IdMatchPositions(text) ==
  {i \in 1..Len(text) : text[i] = "id: " /\ IdRun(text, i + 1) # <<>>}

IdMatches(text) == IdMatchPositions(text) # {}

FirstOf(S) == CHOOSE i \in S : \A j \in S : i <= j

\* id[1] of a successful match.
IdCapture(text) == IdRun(text, FirstOf(IdMatchPositions(text)) + 1)

\* id === null || id[1] == "undefined"
NoUsableId(text) == ~IdMatches(text) \/ IdCapture(text) = <<"undefined">>

\* line.match(/(SJP\-[0-9]+)/)
KeyMatchPositions(text) == {i \in 1..Len(text) : text[i] \in KeyTokens}

KeyMatches(text) == KeyMatchPositions(text) # {}

KeyCapture(text) == text[FirstOf(KeyMatchPositions(text))]

\* Map.prototype.set / mapping[k] = v
MapSet(m, k, v) == [x \in DOMAIN m \cup {k} |-> IF x = k THEN v ELSE m[x]]

EmptyMap == <<>>

\* --------------------------------------------------------------- renderer
\* Date.parse(note.date): a time value, or NaN for text that is no date.
DateParse(d) == [nan |-> ~d.iso, v |-> IF d.iso THEN d.t ELSE 0]

\* if (date): NaN and 0 are the falsy numbers.
Truthy(date) == ~date.nan /\ date.v # 0

\* The loop over proposal.notes that keeps {date, url} of the notes passing
\* the test, in their original order.
RECURSIVE CollectNotes(_)
CollectNotes(ns) ==
  IF ns = <<>>
  THEN <<>>
  ELSE LET date == DateParse(Head(ns).date)
       IN (IF Truthy(date) THEN <<[date |-> date.v, url |-> Head(ns).url]>> ELSE <<>>)
            \o CollectNotes(Tail(ns))

\* The comparator (a, b) => a.date - b.date.
Compare(a, b) == a.date - b.date

\* One note put into an already sorted list, after every note that does not
\* compare greater: Array.prototype.sort is stable.
RECURSIVE InsertNote(_, _)
InsertNote(sorted, n) ==
  IF sorted = <<>>
  THEN <<n>>
  ELSE IF Compare(Head(sorted), n) > 0
       THEN <<n>> \o sorted
       ELSE <<Head(sorted)>> \o InsertNote(Tail(sorted), n)

RECURSIVE SortNotes(_)
SortNotes(ns) ==
  IF ns = <<>>
  THEN <<>>
  ELSE InsertNote(SortNotes(SubSeq(ns, 1, Len(ns) - 1)), ns[Len(ns)])

\* Intl.DateTimeFormat("en-CA", {dateStyle: "short"}).format(t): the calendar
\* day of t in the time zone of the host, tz hours from UTC.
DTFFormat(t, tz) == ToString((t + tz) \div 24)

\* The notes that are rendered, in rendering order.
RenderedNotes(p) == SortNotes(CollectNotes(p.notes))

RECURSIVE NoteString(_, _)
NoteString(ns, tz) ==
  IF ns = <<>>
  THEN <<>>
  ELSE <<"  - ", DTFFormat(Head(ns).date, tz), ": ", Head(ns).url, "\n">>
         \o NoteString(Tail(ns), tz)

\* `id: ${proposal.id}\nurl: ${proposal.url}\n${noteString}`
\* ${proposal.id}: the identifier, or the text "undefined" of a missing one.
IdText(p) == IF "id" \in DOMAIN p THEN p.id ELSE <<"undefined">>

Description(p, tz) ==
  <<"id: ">> \o IdText(p) \o <<"\n", "url: ", p.url, "\n", "notes:\n">>
    \o NoteString(RenderedNotes(p), tz)

\* ---------------------------------------------------------------- gateway
\* String(stage), the property key of STAGE_EPICS[stage].
StageKey(stage) ==
  IF stage % 10 = 0
  THEN ToString(stage \div 10)
  ELSE ToString(stage \div 10) \o "." \o ToString(stage % 10)

\* {"key": STAGE_EPICS[stage]} as JSON.stringify writes it: a key whose value
\* is undefined is left out.
ParentOf(stage) ==
  IF StageKey(stage) \in DOMAIN STAGE_EPICS
  THEN [key |-> STAGE_EPICS[StageKey(stage)]]
  ELSE <<>>

createBlob(name, description, stage) ==
  [fields |-> [project |-> [key |-> PROJECTKEY],
               parent |-> ParentOf(stage),
               summary |-> name,
               issuetype |-> [id |-> ISSUETYPE_STORY],
               description |-> description,
               components |-> <<[name |-> COMPONENT]>>]]

updateBlob(description, stage) ==
  [fields |-> [parent |-> ParentOf(stage)],
   update |-> [description |-> <<[set |-> description]>>]]

\* ---------------------------------------------------- the tracking service
\* The service holds `fill` issues without a description followed by the
\* issues of tr; a search answers at most cp records a page.
IssueKey(n) == "SJP-" \o ToString(n)

SearchPage(tr, fill, cp, start) ==
  LET total == fill + Len(tr)
      hi == Min(start + Min(maxResults, cp), total)
  IN [total |-> total,
      count |-> Max(0, hi - start),
      issues |-> SubSeq(tr, Max(1, start - fill + 1), hi - fill)]

\* POST /rest/api/2/issue answered 201.
ApplyCreate(tr, fill, blob) ==
  Append(tr, [key |-> IssueKey(fill + Len(tr) + 1),
              summary |-> blob.fields.summary,
              description |-> blob.fields.description,
              parent |-> blob.fields.parent])

RECURSIVE ApplyOps(_, _)
ApplyOps(value, ops) ==
  IF ops = <<>> THEN value ELSE ApplyOps(Head(ops).set, Tail(ops))

\* PUT /rest/api/2/issue/<key> answered 204.
ApplyUpdate(tr, key, blob) ==
  [j \in 1..Len(tr) |->
     IF tr[j].key = key
     THEN [tr[j] EXCEPT
             !.parent = IF "key" \in DOMAIN blob.fields.parent
                        THEN blob.fields.parent ELSE @,
             !.description = ApplyOps(@, blob.update.description)]
     ELSE tr[j]]

\* ------------------------------------------------------------------ state
VARIABLES
  pc,            \* "index", "sync", "done", "crashed" (an unhandled rejection); "csv", "csvdone"
  run,           \* number of the current run
  tz,            \* time zone of the host of this run, hours from UTC
  cap,           \* the most records the service answers a page
  filler,        \* issues of the component that have no description
  tracker,       \* the other issues of the component, in search order
  data,          \* the dataset
  startAt, totalResults, mapping,   \* getIssues
  pages,         \* the start offsets requested by getIssues in this run
  retrieved,     \* the records getIssues was answered in this run
  indexFailed,   \* a page of this run was answered with a status other than 200
  issueKeys,     \* what getIssues returned
  idx,           \* position of the loop of parseTC39Dataset in data
  calls,         \* the create and update requests of this run
  rendered,      \* every <<proposal, description>> rendered so far
  created,       \* the create requests answered 201 so far: identifier, run, new key
  failed,        \* some request so far was not answered with success
  lines, lineNo, csvMapping   \* parseJiraCsv

vars == <<pc, run, tz, cap, filler, tracker, data, startAt, totalResults, mapping,
          pages, retrieved, indexFailed, issueKeys, idx, calls, rendered,
          created, failed, lines, lineNo, csvMapping>>

csvVars == <<lines, lineNo, csvMapping>>
envVars == <<run, tz, cap, filler, data>>
indexVars == <<startAt, totalResults, mapping, pages, retrieved, indexFailed>>
histVars == <<created, failed>>

\* ------------------------------------------------------------- getIssues
\* The loop over data.issues left at the first issue without a usable
\* identifier, where the code goes on with the next issue.
RECURSIVE IndexIssuesStopAtUnusable(_, _)
IndexIssuesStopAtUnusable(m, issues) ==
  IF issues = <<>>
  THEN m
  ELSE IF NoUsableId(Head(issues).description)
       THEN m
       ELSE IndexIssuesStopAtUnusable(
              MapSet(m, IdCapture(Head(issues).description), Head(issues).key),
              Tail(issues))

\* The loop over data.issues.
RECURSIVE IndexIssues(_, _)
IndexIssues(m, issues) ==
  IF issues = <<>>
  THEN m
  ELSE IndexIssues(IF NoUsableId(Head(issues).description)
                   THEN m
                   ELSE MapSet(m, IdCapture(Head(issues).description), Head(issues).key),
                   Tail(issues))

\* The loop condition off by one.
LoopContinuesInclusive(start, total) == start <= total

\* while (startAt < totalResults)
LoopContinues(start, total) == start < total

\* A getIssues that returns what it has on an error.
GetIssuesOnErrorPartial(m) == [defined |-> TRUE, map |-> m]

\* What getIssues returns when a page is not answered 200: `return;`
GetIssuesOnError(m) == [defined |-> FALSE]

\* One page answered 200; the loop condition is tested again and getIssues
\* returns the mapping when it fails.
GetIssuesPageOk ==
  /\ pc = "index"
  /\ LoopContinues(startAt, totalResults)
  /\ LET page == SearchPage(tracker, filler, cap, startAt)
         m == IndexIssues(mapping, page.issues)
     IN /\ totalResults' = page.total
        /\ startAt' = startAt + maxResults
        /\ mapping' = m
        /\ pages' = Append(pages, startAt)
        /\ retrieved' = retrieved + page.count
        /\ IF LoopContinues(startAt + maxResults, page.total)
           THEN pc' = "index" /\ UNCHANGED issueKeys
           ELSE pc' = "sync" /\ issueKeys' = [defined |-> TRUE, map |-> m]
  /\ UNCHANGED <<envVars, tracker, indexFailed, idx, calls, rendered, histVars, csvVars>>

\* One page answered with another status.
GetIssuesPageError ==
  /\ pc = "index"
  /\ LoopContinues(startAt, totalResults)
  /\ pages' = Append(pages, startAt)
  /\ indexFailed' = TRUE
  /\ failed' = TRUE
  /\ issueKeys' = GetIssuesOnError(mapping)
  /\ pc' = "sync"
  /\ UNCHANGED <<envVars, tracker, startAt, totalResults, mapping, retrieved, idx,
                 calls, rendered, created, csvVars>>

\* ------------------------------------------------------ parseTC39Dataset
\* proposal.stage >= 1
StageTracked(p) == p.stage >= 10

\* The cutoff year taken as historical too.
HistoricalStage4Inclusive(p) ==
  p.stage = 40 /\ "edition" \in DOMAIN p /\ p.edition <= 2024

\* proposal.stage == 4 && proposal.edition < 2024 (undefined < 2024 is false)
HistoricalStage4(p) == p.stage = 40 /\ "edition" \in DOMAIN p /\ p.edition < 2024

\* The guard left out.
IdUndefinedNever(p) == FALSE

\* proposal.id === undefined
IdUndefined(p) == "id" \notin DOMAIN p

\* The proposals the loop passes over without a request.
Skipped(p) == ~StageTracked(p) \/ HistoricalStage4(p) \/ IdUndefined(p)

\* The index looked up by the name of the proposal.
IndexedByName(m, p) == <<p.name>> \in DOMAIN m

\* issueKeys.get(proposal.id) !== undefined
Indexed(m, p) == "id" \in DOMAIN p /\ p.id \in DOMAIN m

CreateRequest(p, i, t) ==
  [op |-> "create", at |-> i, body |-> createBlob(p.name, Description(p, t), p.stage)]

UpdateRequest(p, i, t, issueKey) ==
  [op |-> "update", at |-> i, key |-> issueKey,
   body |-> updateBlob(Description(p, t), p.stage)]

\* What a create request can meet: 201; another status with a JSON body;
\* another status with a body response.json() rejects; a rejected fetch.
CreateOutcomes == {"success", "http_error", "bad_body", "network_error"}

\* What an update request can meet: 204; another status; a rejected fetch.
UpdateOutcomes == {"success", "http_error", "network_error"}

\* The outcomes after which the awaited call throws; nothing catches it.
Throws(outcome) == outcome \in {"bad_body", "network_error"}

\* The loop goes to the next proposal, or parseTC39Dataset returns.
Advance ==
  /\ idx' = idx + 1
  /\ pc' = IF idx = Len(data) THEN "done" ELSE "sync"

\* A proposal that is filtered out: `continue`, or the untaken `if`.
SkipProposal ==
  /\ pc = "sync"
  /\ Skipped(data[idx])
  /\ Advance
  /\ UNCHANGED <<envVars, tracker, indexVars, issueKeys, calls, rendered, histVars,
                 csvVars>>

\* issueKeys.get(...) on the undefined that getIssues returned: a TypeError.
LookupThrows ==
  /\ pc = "sync"
  /\ ~Skipped(data[idx])
  /\ ~issueKeys.defined
  /\ pc' = "crashed"
  /\ UNCHANGED <<envVars, tracker, indexVars, issueKeys, idx, calls, rendered, histVars,
                 csvVars>>

\* The record of a create request answered 201: the identifier as the
\* description carries it, and the key of the new issue, the one the answer
\* carries (data.key), that of the last issue of tr.
Created(p, r, tr) == [id |-> IdText(p), run |-> r, key |-> tr[Len(tr)].key]

\* A proposal whose identifier the index does not hold: createIssue.
CreateStep ==
  /\ pc = "sync"
  /\ ~Skipped(data[idx])
  /\ issueKeys.defined
  /\ ~Indexed(issueKeys.map, data[idx])
  /\ LET req == CreateRequest(data[idx], idx, tz)
     IN /\ calls' = Append(calls, req)
        /\ rendered' = rendered \cup {<<data[idx], req.body.fields.description>>}
        /\ \E outcome \in CreateOutcomes :
             /\ tracker' = IF outcome = "success"
                           THEN ApplyCreate(tracker, filler, req.body)
                           ELSE tracker
             /\ created' = IF outcome = "success"
                           THEN created \cup {Created(data[idx], run, tracker')}
                           ELSE created
             /\ failed' = (failed \/ outcome # "success")
             /\ IF Throws(outcome)
                THEN pc' = "crashed" /\ UNCHANGED idx
                ELSE Advance
  /\ UNCHANGED <<envVars, indexVars, issueKeys, csvVars>>

\* A proposal whose identifier the index holds: updateIssue.
UpdateStep ==
  /\ pc = "sync"
  /\ ~Skipped(data[idx])
  /\ issueKeys.defined
  /\ Indexed(issueKeys.map, data[idx])
  /\ LET req == UpdateRequest(data[idx], idx, tz, issueKeys.map[data[idx].id])
     IN /\ calls' = Append(calls, req)
        /\ rendered' = rendered \cup {<<data[idx], req.body.update.description[1].set>>}
        /\ \E outcome \in UpdateOutcomes :
             /\ tracker' = IF outcome = "success"
                           THEN ApplyUpdate(tracker, req.key, req.body)
                           ELSE tracker
             /\ failed' = (failed \/ outcome # "success")
             /\ IF Throws(outcome)
                THEN pc' = "crashed" /\ UNCHANGED idx
                ELSE Advance
  /\ UNCHANGED <<envVars, indexVars, issueKeys, created, csvVars>>

\* The tool is run again, on the same dataset, on a host of any time zone.
TimeZones == {0, -5}

StartRun ==
  /\ pc \in {"done", "crashed"}
  /\ run < MaxRuns
  /\ run' = run + 1
  /\ tz' \in TimeZones
  /\ pc' = "index"
  /\ startAt' = 0
  /\ totalResults' = 1
  /\ mapping' = EmptyMap
  /\ pages' = <<>>
  /\ retrieved' = 0
  /\ indexFailed' = FALSE
  /\ issueKeys' = [defined |-> FALSE]
  /\ idx' = 1
  /\ calls' = <<>>
  /\ UNCHANGED <<cap, filler, data, tracker, rendered, histVars, csvVars>>

\* ----------------------------------------------------------------- inputs
Identifiers == {<<"a">>, <<"b">>}

\* Identifiers the pattern [A-Za-z0-9.-]+ takes a part of only.
OtherIdentifiers == {<<"a", "_", "b">>}

\* Stage with the edition of a finished proposal: 0, 1, 2, 2.7, 3 and 4.
StageEditions ==
  {[stage |-> s] : s \in {0, 10, 20, 27, 30, 40}}
    \cup {[stage |-> 40, edition |-> e] : e \in {2023, 2024}}

Proposal(se, id, ns) ==
  se @@ [id |-> id, name |-> "name of " \o id[1], url |-> "https://" \o id[1], notes |-> ns]

ProposalWithoutId(se, ns) ==
  se @@ [name |-> "name", url |-> "https://", notes |-> ns]

\* note.date: text that is no date, or the ISO text of the time t.
DateStrings ==
  {[iso |-> FALSE, t |-> 0]} \cup {[iso |-> TRUE, t |-> h] : h \in {0, 3, 30}}

\* The lists of n notes; the url of a note names its place in the list.
NoteListsOf(n) ==
  {[i \in 1..n |-> [date |-> ds[i], url |-> "note" \o ToString(i)]] :
     ds \in [1..n -> DateStrings]}

NoteLists == UNION {NoteListsOf(n) : n \in 0..MaxNotes}

\* Proposals of every stage, edition and identifier.
SyncProposals ==
  {Proposal(se, id, <<>>) : se \in StageEditions, id \in Identifiers}
    \cup {ProposalWithoutId(se, <<>>) : se \in StageEditions}

\* The proposals of the datasets of several: one that is created or updated
\* at stage 1, one at stage 2.7, one without identifier, one below stage 1
\* and one finished before 2024.
MixedProposals ==
  { Proposal([stage |-> 10], <<"a">>, <<>>),
    Proposal([stage |-> 27], <<"b">>, <<>>),
    ProposalWithoutId([stage |-> 30], <<>>),
    Proposal([stage |-> 0], <<"a">>, <<>>),
    Proposal([stage |-> 40, edition |-> 2023], <<"b">>, <<>>) }

\* A tracked proposal with every list of notes.
NotesProposals == {Proposal([stage |-> 30], <<"a">>, ns) : ns \in NoteLists}

SeqsUpTo(S, n) == UNION {[1..k -> S] : k \in 1..n}

\* Issues the tracker can hold before the first run.
OldIssue(n, idText) ==
  [key |-> IssueKey(n), summary |-> "old summary",
   description |-> <<"id: ">> \o idText \o <<"\n", "url: ", "https://old", "\n", "notes:\n">>,
   parent |-> [key |-> "SJP-184"]]

HandWrittenIssue(n) ==
  [key |-> IssueKey(n), summary |-> "by hand", description |-> <<"written by hand">>,
   parent |-> [key |-> "SJP-184"]]

InitTrackers(fill) ==
  { <<>>,
    <<OldIssue(fill + 1, <<"a">>)>>,
    <<OldIssue(fill + 1, <<"a">>), HandWrittenIssue(fill + 2)>>,
    <<OldIssue(fill + 1, <<"a">>), OldIssue(fill + 2, <<"undefined">>),
      OldIssue(fill + 3, <<"b">>)>> }

\* Numbers of issues without a description, and the page caps of the service.
Fillers == {0, 98, 247}
Caps == {100, 50}

\* ------------------------------------------------------------------- Init
InitRun ==
  /\ pc = "index"
  /\ run = 1
  /\ startAt = 0
  /\ totalResults = 1
  /\ mapping = EmptyMap
  /\ pages = <<>>
  /\ retrieved = 0
  /\ indexFailed = FALSE
  /\ issueKeys = [defined |-> FALSE]
  /\ idx = 1
  /\ calls = <<>>
  /\ rendered = {}
  /\ created = {}
  /\ failed = FALSE

InitCsvIdle ==
  /\ lines = <<>>
  /\ lineNo = 1
  /\ csvMapping = EmptyMap

\* One proposal of any stage, edition and identifier, or several of the mixed
\* ones, against a small tracker.
InitSync ==
  /\ data \in SeqsUpTo(SyncProposals, 1) \cup SeqsUpTo(MixedProposals, MaxData)
  /\ filler = 0
  /\ cap = maxResults
  /\ tracker \in InitTrackers(filler)
  /\ tz = 0

\* One proposal with any notes, on a host of any time zone.
InitNotes ==
  /\ data \in {<<p>> : p \in NotesProposals}
  /\ filler = 0
  /\ cap = maxResults
  /\ tracker \in {<<>>, <<OldIssue(1, <<"a">>)>>}
  /\ tz \in TimeZones

\* One proposal against a tracker of any size and page cap.
InitPages ==
  /\ data \in {<<Proposal([stage |-> 20], id, <<>>)>> : id \in Identifiers}
  /\ filler \in Fillers
  /\ cap \in Caps
  /\ tracker \in InitTrackers(filler)
  /\ tz = 0

\* One proposal whose identifier has a character the pattern of getIssues
\* does not take.
InitMarker ==
  /\ data \in {<<Proposal([stage |-> 10], id, <<>>)>> : id \in OtherIdentifiers}
  /\ filler = 0
  /\ cap = maxResults
  /\ tracker \in {<<>>, <<OldIssue(1, <<"a">>)>>}
  /\ tz = 0

Init ==
  /\ InitRun
  /\ InitCsvIdle
  /\ (InitSync \/ InitNotes \/ InitPages \/ InitMarker)

Next ==
  \/ GetIssuesPageOk
  \/ GetIssuesPageError
  \/ SkipProposal
  \/ LookupThrows
  \/ CreateStep
  \/ UpdateStep
  \/ StartRun

Spec == Init /\ [][Next]_vars

\* ------------------------------------------------------------ parseJiraCsv
\* An identifier that is already mapped keeps its key.
CsvAssignFirstWins(m, id, key) == IF id \in DOMAIN m THEN m ELSE MapSet(m, id, key)

\* mapping[id[1]] = key[1]
CsvAssign(m, id, key) == MapSet(m, id, key)

\* The body of the loop over the lines, for one line.
CsvLine(m, line) ==
  IF ~KeyMatches(line)
  THEN m
  ELSE IF NoUsableId(line)
       THEN m
       ELSE CsvAssign(m, IdCapture(line), KeyCapture(line))

ParseLine ==
  /\ pc = "csv"
  /\ lineNo <= Len(lines)
  /\ csvMapping' = CsvLine(csvMapping, lines[lineNo])
  /\ lineNo' = lineNo + 1
  /\ UNCHANGED <<pc, lines, envVars, tracker, indexVars, issueKeys, idx, calls, rendered,
                 histVars>>

\* The lines are read: the mapping is written to keys.json.
CsvFinish ==
  /\ pc = "csv"
  /\ lineNo > Len(lines)
  /\ pc' = "csvdone"
  /\ UNCHANGED <<csvVars, envVars, tracker, indexVars, issueKeys, idx, calls, rendered,
                 histVars>>

\* Lines of an export: with a key and an identifier; with the placeholder;
\* without marker; without key; with the project prefix and no digits; with a
\* marker and no identifier; with two keys; with two markers; with the marker
\* before the key.
CsvLines ==
  { <<"SJP-1", ", ", "id: ", "a">>,
    <<"SJP-2", ", ", "id: ", "a">>,
    <<"SJP-2", ", ", "id: ", "b">>,
    <<"SJP-1", ", ", "id: ", "undefined">>,
    <<"SJP-1", ", ", "a summary">>,
    <<"a summary", ", ", "id: ", "a">>,
    <<"SJP-", ", ", "id: ", "b">>,
    <<"SJP-2", ", ", "id: ", ", ">>,
    <<"SJP-2", ", ", "SJP-1", ", ", "id: ", "b">>,
    <<"SJP-1", ", ", "id: ", "undefined", ", ", "id: ", "a">>,
    <<"id: ", "b", ", ", "SJP-1">> }

InitCsv ==
  /\ pc = "csv"
  /\ lines \in {<<>>} \cup SeqsUpTo(CsvLines, MaxLines)
  /\ lineNo = 1
  /\ csvMapping = EmptyMap
  /\ run = 1
  /\ tz = 0
  /\ cap = maxResults
  /\ filler = 0
  /\ tracker = <<>>
  /\ data = <<>>
  /\ startAt = 0
  /\ totalResults = 1
  /\ mapping = EmptyMap
  /\ pages = <<>>
  /\ retrieved = 0
  /\ indexFailed = FALSE
  /\ issueKeys = [defined |-> FALSE]
  /\ idx = 1
  /\ calls = <<>>
  /\ rendered = {}
  /\ created = {}
  /\ failed = FALSE

NextCsv == ParseLine \/ CsvFinish

SpecCsv == InitCsv /\ [][NextCsv]_vars

\* ------------------------------------------------------------- properties
Terminated == pc \in {"done", "crashed"}

\* C1: when a page of the live query of a run was answered with a status
\* other than 200, getIssues has returned no index and the run has issued no
\* create and no update request.
C1_NoRequestAfterFailedPage ==
  indexFailed => ~issueKeys.defined /\ calls = <<>>

\* C1 witness: a run that has ended after its second or later page failed,
\* when identifiers of earlier pages were already in the mapping.
C1_Witness ==
  /\ indexFailed
  /\ Terminated
  /\ Len(pages) >= 2
  /\ mapping # EmptyMap
  /\ \E i \in 1..Len(data) : ~Skipped(data[i])

\* C2: when a run whose index was built has ended, a request has been issued
\* for every proposal of the dataset that is not filtered out, whatever the
\* outcomes of the requests for the proposals before it were.
C2_EveryProposalProcessed ==
  (Terminated /\ issueKeys.defined) =>
    \A i \in 1..Len(data) :
      ~Skipped(data[i]) => \E j \in 1..Len(calls) : calls[j].at = i

\* C3: a step of the loop on a proposal that is not filtered out issues
\* exactly one request: for an identifier the index does not hold, a create
\* with the name as summary, the rendered description and the component
\* label; for one it holds, an update of the indexed key that carries the
\* description replacement and the parent and nothing else.
C3_CreateOrUpdate ==
  [][(pc = "sync" /\ ~Skipped(data[idx]) /\ issueKeys.defined) =>
       LET p == data[idx]
           c == calls'[Len(calls')]
       IN /\ Len(calls') = Len(calls) + 1
          /\ SubSeq(calls', 1, Len(calls)) = calls
          /\ c.at = idx
          /\ IF p.id \in DOMAIN issueKeys.map
             THEN /\ c.op = "update"
                  /\ c.key = issueKeys.map[p.id]
                  /\ DOMAIN c.body = {"fields", "update"}
                  /\ DOMAIN c.body.fields = {"parent"}
                  /\ c.body.update = [description |-> <<[set |-> Description(p, tz)]>>]
             ELSE /\ c.op = "create"
                  /\ c.body.fields.summary = p.name
                  /\ c.body.fields.description = Description(p, tz)
                  /\ c.body.fields.components = <<[name |-> COMPONENT]>>]_vars

\* C3 witness: a finished run that issued a create for one proposal and an
\* update for another.
C3_Witness ==
  /\ pc = "done"
  /\ \E i, j \in 1..Len(calls) : calls[i].op = "create" /\ calls[j].op = "update"

\* C4: a step of the loop on a proposal below stage 1, or at stage 4 with an
\* edition before 2024, issues no request; a step on a proposal with an
\* identifier at stage 1, 2, 2.7 or 3, or at stage 4 with edition 2024 or
\* later, issues exactly one, when the index was built.
C4_RelevanceFilter ==
  [][pc = "sync" =>
       LET p == data[idx]
       IN /\ (p.stage < 10 \/ (p.stage = 40 /\ "edition" \in DOMAIN p /\ p.edition < 2024))
               => calls' = calls
          /\ ( /\ issueKeys.defined
               /\ "id" \in DOMAIN p
               /\ \/ p.stage \in {10, 20, 27, 30}
                  \/ (p.stage = 40 /\ "edition" \in DOMAIN p /\ p.edition >= 2024) )
               => (Len(calls') = Len(calls) + 1 /\ calls'[Len(calls')].at = idx)]_vars

\* C4 witness: a finished run that issued a request for a proposal at stage 4
\* with edition 2024.
C4_Witness ==
  /\ pc = "done"
  /\ \E j \in 1..Len(calls) :
       LET p == data[calls[j].at]
       IN p.stage = 40 /\ "edition" \in DOMAIN p /\ p.edition = 2024

\* C5: no request of a run is for a proposal without identifier.
C5_NoRequestWithoutId ==
  \A j \in 1..Len(calls) : "id" \in DOMAIN data[calls[j].at]

\* C5 witness: a finished run with an index that holds identifiers, over a
\* dataset with a proposal without identifier at a tracked stage, that issued
\* a request for another proposal.
C5_Witness ==
  /\ pc = "done"
  /\ issueKeys.defined
  /\ issueKeys.map # EmptyMap
  /\ calls # <<>>
  /\ \E i \in 1..Len(data) : "id" \notin DOMAIN data[i] /\ data[i].stage >= 10

\* The pages a total of n records takes: one for none, else n / 100 rounded up.
PagesFor(n) == IF n = 0 THEN 1 ELSE (n + maxResults - 1) \div maxResults

NotesAt(text) == CHOOSE k \in 1..Len(text) : text[k] = "notes:\n"

ListedUrls(text) ==
  [j \in 1..((Len(text) - NotesAt(text)) \div 5) |-> text[NotesAt(text) + 5 * (j - 1) + 4]]

\* The place in the notes of p of the note with url u.
PlaceOf(p, u) == CHOOSE i \in 1..Len(p.notes) : p.notes[i].url = u

\* C7: every description rendered lists exactly the notes of the proposal
\* whose timestamp is a valid time, each once, by ascending time, notes of
\* equal time in their original order.
C7_ValidNotesListed ==
  \A r \in rendered :
    LET p == r[1]
        urls == ListedUrls(r[2])
    IN /\ {urls[j] : j \in 1..Len(urls)}
            = {p.notes[i].url : i \in {i \in 1..Len(p.notes) : p.notes[i].date.iso}}
       /\ \A j, k \in 1..Len(urls) : j # k => urls[j] # urls[k]
       /\ \A j \in 1..(Len(urls) - 1) :
            LET a == PlaceOf(p, urls[j])
                b == PlaceOf(p, urls[j + 1])
            IN \/ p.notes[a].date.t < p.notes[b].date.t
               \/ (p.notes[a].date.t = p.notes[b].date.t /\ a < b)

\* C8: the descriptions rendered for one proposal are all the same text, and
\* an update of a run applied to the tracker twice leaves what applying it
\* once leaves.
C8_Idempotent ==
  /\ \A r1, r2 \in rendered : r1[1] = r2[1] => r1[2] = r2[2]
  /\ \A j \in 1..Len(calls) :
       calls[j].op = "update" =>
         LET once == ApplyUpdate(tracker, calls[j].key, calls[j].body)
         IN ApplyUpdate(once, calls[j].key, calls[j].body) = once

\* The parent of each stage of the table, by the stage in tenths.
ParentOfStage(stage) ==
  CASE stage = 10 -> "SJP-184"
    [] stage = 20 -> "SJP-185"
    [] stage = 27 -> "SJP-186"
    [] stage = 30 -> "SJP-187"
    [] stage = 40 -> "SJP-188"
    [] OTHER -> "none"

\* C10: every stage of the dataset that passes stage >= 1 has an entry in
\* STAGE_EPICS, and every request of a run carries a parent key, the entry of
\* the stage of its proposal.
C10_ParentOfStage ==
  /\ \A i \in 1..Len(data) :
       data[i].stage >= 10 => StageKey(data[i].stage) \in DOMAIN STAGE_EPICS
  /\ \A j \in 1..Len(calls) :
       LET parent == calls[j].body.fields.parent
       IN /\ DOMAIN parent = {"key"}
          /\ parent.key = ParentOfStage(data[calls[j].at].stage)

\* C10 witness: a finished run that issued a request for a proposal at stage
\* 2.7, under SJP-186.
C10_Witness ==
  /\ pc = "done"
  /\ \E j \in 1..Len(calls) :
       /\ data[calls[j].at].stage = 27
       /\ calls[j].body.fields.parent.key = "SJP-186"

\* A line contains a key: a token SJP-<digits>.
ContainsKey(line) == \E i \in 1..Len(line) : line[i] \in KeyTokens

\* The places of a line where the marker is followed by an identifier.
MarkerPlaces(line) ==
  {i \in 1..(Len(line) - 1) : line[i] = "id: " /\ line[i + 1] \in IdCharTokens}

\* Line i carries identifier x: it contains a key, and its first marker with
\* an identifier names x, which is not the placeholder.
Carries(i, x) ==
  /\ ContainsKey(lines[i])
  /\ MarkerPlaces(lines[i]) # {}
  /\ lines[i][FirstOf(MarkerPlaces(lines[i])) + 1] = x
  /\ x # "undefined"

\* C9: the mapping built from the lines read so far holds an identifier only
\* if a line read contains a key and a marker with that identifier, never
\* the placeholder, and it holds exactly the identifiers the lines read
\* carry, each with the key of the last line that carries it.
C9_BulkExportParsing ==
  LET read == 1..(lineNo - 1)
  IN /\ \A id \in DOMAIN csvMapping :
          /\ Len(id) = 1
          /\ id[1] # "undefined"
          /\ \E i \in read :
               /\ ContainsKey(lines[i])
               /\ \E k \in MarkerPlaces(lines[i]) : lines[i][k + 1] = id[1]
       /\ \A x \in IdCharTokens :
            LET carriers == {i \in read : Carries(i, x)}
            IN IF carriers = {}
               THEN <<x>> \notin DOMAIN csvMapping
               ELSE /\ <<x>> \in DOMAIN csvMapping
                    /\ LET last == CHOOSE i \in carriers : \A j \in carriers : j <= i
                       IN csvMapping[<<x>>] = lines[last][FirstOf(KeyMatchPositions(lines[last]))]

\* C9 witness: an export read to its end in which two lines carry one
\* identifier with different keys and a third holds the placeholder; the
\* mapping holds the key of the later line.
C9_Witness ==
  /\ pc = "csvdone"
  /\ \E i, j \in 1..Len(lines) :
       /\ i < j
       /\ Carries(i, "a")
       /\ Carries(j, "a")
       /\ lines[i][1] = "SJP-2"
       /\ lines[j][1] = "SJP-1"
       /\ csvMapping[<<"a">>] = "SJP-1"
  /\ \E i \in 1..Len(lines) : lines[i] = <<"SJP-1", ", ", "id: ", "undefined">>

\* The identifier getIssues takes from the description written for the
\* proposal p, and keeps, is the identifier of p.
IdKept(p) ==
  /\ ~NoUsableId(Description(p, tz))
  /\ IdCapture(Description(p, tz)) = p.id

\* The loop of parseTC39Dataset is at a proposal it does not pass over, for
\* whose identifier the create request c was answered 201; every request so
\* far succeeded, getIssues was answered every issue of the component, and the
\* identifier is one getIssues takes whole.
Recurs(c) ==
  /\ pc = "sync"
  /\ ~Skipped(data[idx])
  /\ issueKeys.defined
  /\ ~failed
  /\ retrieved = totalResults
  /\ c.id = data[idx].id
  /\ IdKept(data[idx])

\* The step issues one request, an update of an issue created for the
\* identifier of c.
UpdatesCreated(c) ==
  /\ Len(calls') = Len(calls) + 1
  /\ calls'[Len(calls')].op = "update"
  /\ \E d \in created : d.id = c.id /\ calls'[Len(calls')].key = d.key

\* C11: while every request succeeds and the index holds every issue, a
\* proposal whose identifier had an issue created in an earlier run, and whose
\* identifier the marker of the description gives back whole, leads to an
\* update of an issue created for that identifier, never to another create.
C11_UpdateInLaterRun ==
  [][\A c \in created : (Recurs(c) /\ c.run < run) => UpdatesCreated(c)]_vars

\* C11, witness: in a later run, with every request answered with success, an
\* update went to the issue an earlier run created for the same identifier.
C11_Witness ==
  /\ ~failed
  /\ retrieved = totalResults
  /\ \E c \in created : \E j \in 1..Len(calls) :
       /\ c.run < run
       /\ calls[j].op = "update"
       /\ calls[j].key = c.key
       /\ data[calls[j].at].id = c.id
       /\ IdKept(data[calls[j].at])

\* C11 as stated: while every request succeeds and the index holds every
\* issue, a proposal whose identifier had an issue created before, in an
\* earlier run or earlier in the same dataset, leads to an update of that
\* issue, never to a second create.
C11_UpdateOnceCreated ==
  [][\A c \in created : Recurs(c) => UpdatesCreated(c)]_vars

====
